---- MODULE Spec2Model ----
(***************************************************************************)
(* Escrow record overlay (src/state.rs, src/instructions/helpers.rs).      *)
(*                                                                         *)
(* The caller owns a byte buffer; Escrow::load / Escrow::load_mut check    *)
(* its length against Escrow::LEN and reinterpret its address as a         *)
(* reference to the #[repr(C)] struct Escrow; the setters and set_inner    *)
(* assign fields through that reference.                                   *)
(*                                                                         *)
(* Memory is a sequence of bytes (1-indexed here, byte offsets are         *)
(* 0-based as in the code).  A u64 is kept as four 16-bit limbs, least     *)
(* significant first, so that every 64-bit pattern is representable.       *)
(* The target (SBF, and the x86-64/aarch64 hosts) is little-endian and     *)
(* aligns u64 to 8 bytes.  Buffers are taken 8-aligned, the assumption     *)
(* the SAFETY comment of load_mut states.                                  *)
(***************************************************************************)
EXTENDS Integers, Sequences, FiniteSets, TLC

VARIABLES bytes, handle, res, op, pop, before, orig, wrote, reach, steps

vars == <<bytes, handle, res, op, pop, before, orig, wrote, reach, steps>>

(* ---------------------------- bounds ----------------------------------- *)
MaxOps == 4
MaxSlack == 1

(* ------------------------ layout: state.rs ----------------------------- *)
FieldNames == <<"seed", "maker", "mint_a", "mint_b", "receive", "bump">>

NumFields == Len(FieldNames)

FieldType(f) ==
  CASE f = "seed" -> "u64"
    [] f = "maker" -> "Pubkey"
    [] f = "mint_a" -> "Pubkey"
    [] f = "mint_b" -> "Pubkey"
    [] f = "receive" -> "u64"
    [] f = "bump" -> "u8x1"

size_of(t) ==
  CASE t = "u64" -> 8
    [] t = "Pubkey" -> 32
    [] t = "u8x1" -> 1

align_of(t) ==
  CASE t = "u64" -> 8
    [] t = "Pubkey" -> 1
    [] t = "u8x1" -> 1

FieldSize(f) == size_of(FieldType(f))

AlignUp(n, a) == ((n + a - 1) \div a) * a

Max(a, b) == IF a >= b THEN a ELSE b

RECURSIVE OffsetAt(_)
OffsetAt(i) ==
  IF i = 1 THEN 0
  ELSE AlignUp(OffsetAt(i - 1) + FieldSize(FieldNames[i - 1]),
               align_of(FieldType(FieldNames[i])))

FieldIndex(f) == CHOOSE i \in 1..NumFields : FieldNames[i] = f

OffsetOf(f) == OffsetAt(FieldIndex(f))

RECURSIVE MaxAlignUpTo(_)
MaxAlignUpTo(i) ==
  IF i = 0 THEN 1
  ELSE Max(MaxAlignUpTo(i - 1), align_of(FieldType(FieldNames[i])))

EscrowAlign == MaxAlignUpTo(NumFields)

SizeOfEscrow ==
  AlignUp(OffsetAt(NumFields) + FieldSize(FieldNames[NumFields]), EscrowAlign)

LEN ==
  size_of("u64") + size_of("Pubkey") + size_of("Pubkey")
    + size_of("Pubkey") + size_of("u64") + size_of("u8x1")

(* --------------------- values and their bytes -------------------------- *)
(* u64 from a small natural number *)
U64(n) == <<n % 65536, n \div 65536, 0, 0>>

(* a big-endian store of a u64 *)
to_be_bytes(x) ==
  [i \in 1..8 |->
     LET l == x[4 - ((i - 1) \div 2)]
     IN  IF (i - 1) % 2 = 0 THEN l \div 256 ELSE l % 256]

(* u64::to_le_bytes: the native store of a u64 on a little-endian target *)
to_le_bytes(x) ==
  [i \in 1..8 |->
     LET l == x[((i - 1) \div 2) + 1]
     IN  IF (i - 1) % 2 = 0 THEN l % 256 ELSE l \div 256]

(* u64::from_le_bytes: the native load of a u64 *)
from_le_bytes(b) == [k \in 1..4 |-> b[2 * k - 1] + 256 * b[2 * k]]

(* the bytes a value of type t occupies in memory *)
Encode(t, v) == IF t = "u64" THEN to_le_bytes(v) ELSE v

Decode(t, b) == IF t = "u64" THEN from_le_bytes(b) ELSE b

Fill(n, b) == [i \in 1..n |-> b]

Ramp(n) == [i \in 1..n |-> (i * 7) % 256]

(* ----------------------- raw memory accesses --------------------------- *)
(* store `bs` at 0-based offset `off` of `mem` *)
StoreBytes(mem, off, bs) ==
  [i \in 1..Len(mem) |->
     IF i > off /\ i <= off + Len(bs) THEN bs[i - off] ELSE mem[i]]

LoadBytes(mem, off, n) == SubSeq(mem, off + 1, off + n)

(* `self.f = v` through a reference to Escrow laid over mem *)
AssignField(mem, f, v) ==
  StoreBytes(mem, OffsetOf(f), Encode(FieldType(f), v))

(* `self.f` read through a reference to Escrow laid over mem *)
ReadField(mem, f) ==
  Decode(FieldType(f), LoadBytes(mem, OffsetOf(f), FieldSize(f)))

(* all six fields as seen through &Escrow *)
View(mem) ==
  [seed |-> ReadField(mem, "seed"),
   maker |-> ReadField(mem, "maker"),
   mint_a |-> ReadField(mem, "mint_a"),
   mint_b |-> ReadField(mem, "mint_b"),
   receive |-> ReadField(mem, "receive"),
   bump |-> ReadField(mem, "bump")]

(* ------------------- helpers.rs: load / load_mut ----------------------- *)
NoHandle == [kind |-> "none", span |-> 0]

(* load_mut with a lower-bound check only: `bytes.len() < Escrow::LEN` *)
load_mut_short(mem) ==
  IF Len(mem) < LEN
  THEN [res |-> "InvalidAccountData", handle |-> NoHandle, mem |-> mem]
  ELSE [res |-> "Ok",
        handle |-> [kind |-> "mut", span |-> SizeOfEscrow],
        mem |-> mem]

(* The result of a load: the Result's variant, the reference produced     *)
(* (its referent spans size_of::<Escrow>() bytes from the buffer's first  *)
(* byte) and the buffer as the call leaves it.                             *)
load_mut(mem) ==
  IF Len(mem) # LEN
  THEN [res |-> "InvalidAccountData", handle |-> NoHandle, mem |-> mem]
  ELSE [res |-> "Ok",
        handle |-> [kind |-> "mut", span |-> SizeOfEscrow],
        mem |-> mem]

(* load that wipes a buffer it rejects *)
load_scrub(mem) ==
  IF Len(mem) # LEN
  THEN [res |-> "InvalidAccountData", handle |-> NoHandle,
        mem |-> [i \in 1..Len(mem) |-> 0]]
  ELSE [res |-> "Ok",
        handle |-> [kind |-> "ref", span |-> SizeOfEscrow],
        mem |-> mem]

load(mem) ==
  IF Len(mem) # LEN
  THEN [res |-> "InvalidAccountData", handle |-> NoHandle, mem |-> mem]
  ELSE [res |-> "Ok",
        handle |-> [kind |-> "ref", span |-> SizeOfEscrow],
        mem |-> mem]

(* ----------------------- helpers.rs: setters --------------------------- *)
set_seed(mem, seed) == AssignField(mem, "seed", seed)

set_maker(mem, maker) == AssignField(mem, "maker", maker)

(* set_mint_a assigning the neighbouring field *)
set_mint_a_wrong(mem, mint_a) == AssignField(mem, "maker", mint_a)

set_mint_a(mem, mint_a) == AssignField(mem, "mint_a", mint_a)

set_mint_b(mem, mint_b) == AssignField(mem, "mint_b", mint_b)

(* set_receive refusing a zero amount *)
set_receive_checked(mem, receive) ==
  IF receive = <<0, 0, 0, 0>> THEN mem ELSE AssignField(mem, "receive", receive)

set_receive(mem, receive) == AssignField(mem, "receive", receive)

(* set_bump accumulating into the stored byte *)
set_bump_add(mem, bump) ==
  AssignField(mem, "bump", <<(mem[OffsetOf("bump") + 1] + bump[1]) % 256>>)

set_bump(mem, bump) == AssignField(mem, "bump", bump)

(* the order of the six assignments in the body of set_inner *)
InnerOrder == <<"seed", "maker", "mint_a", "mint_b", "receive", "bump">>

(* the assignments of set_inner taken last field first *)
RECURSIVE set_inner_upto_rev(_, _, _)
set_inner_upto_rev(mem, v, k) ==
  IF k = 0 THEN mem
  ELSE AssignField(set_inner_upto_rev(mem, v, k - 1),
                   InnerOrder[Len(InnerOrder) + 1 - k],
                   v[InnerOrder[Len(InnerOrder) + 1 - k]])

(* memory after the first k assignments of set_inner(v) *)
RECURSIVE set_inner_upto(_, _, _)
set_inner_upto(mem, v, k) ==
  IF k = 0 THEN mem
  ELSE AssignField(set_inner_upto(mem, v, k - 1), InnerOrder[k], v[InnerOrder[k]])

(* set_inner with mint_a and mint_b exchanged *)
set_inner_swapped(mem, v) ==
  set_inner_upto(mem, [v EXCEPT !.mint_a = v.mint_b, !.mint_b = v.mint_a],
                 Len(InnerOrder))

set_inner(mem, v) == set_inner_upto(mem, v, Len(InnerOrder))

(* ------------- accesses through the reference (helpers.rs 54) ---------- *)
(* 0-based index of the last byte of field f *)
FieldEnd(f) == OffsetOf(f) + FieldSize(f) - 1

(* load/load_mut hand out a reference whose referent is size_of::<Escrow>()  *)
(* bytes although only LEN bytes were validated.  When the referent is       *)
(* longer than the buffer the reference is dangling past the buffer's end    *)
(* and the compiled access may touch any byte of the referent: the highest   *)
(* byte an access to field f touches is the field's last byte or the         *)
(* referent's last byte.                                                     *)
AccessEnds(h, f) == {FieldEnd(f), Max(FieldEnd(f), h.span - 1)}

(* ------------------------- the caller's inputs ------------------------- *)
AllOnes64 == <<65535, 65535, 65535, 65535>>

Mixed64 == <<513, 1027, 1541, 2055>>

Seeds == {U64(42), AllOnes64}

Makers == {Fill(32, 1), Ramp(32)}

MintAs == {Fill(32, 2), Ramp(32)}

MintBs == {Fill(32, 3), Fill(32, 255)}

Receives == {U64(0), U64(1000), Mixed64}

Bumps == {<<7>>, <<255>>}

Scenario ==
  [seed |-> U64(42), maker |-> Fill(32, 1), mint_a |-> Fill(32, 2),
   mint_b |-> Fill(32, 3), receive |-> U64(1000), bump |-> <<7>>]

InnerArgs ==
  {Scenario,
   [seed |-> AllOnes64, maker |-> Ramp(32), mint_a |-> Fill(32, 0),
    mint_b |-> Fill(32, 255), receive |-> Mixed64, bump |-> <<255>>]}

Lens == {0, SizeOfEscrow} \cup ((LEN - MaxSlack)..(LEN + MaxSlack))

Buffers == UNION {{Fill(n, 0), Fill(n, 255), Ramp(n)} : n \in Lens}

FieldSet == {FieldNames[i] : i \in 1..NumFields}

Setters == {"set_seed", "set_maker", "set_mint_a", "set_mint_b", "set_receive", "set_bump"}

SetterField(name) ==
  CASE name = "set_seed" -> "seed"
    [] name = "set_maker" -> "maker"
    [] name = "set_mint_a" -> "mint_a"
    [] name = "set_mint_b" -> "mint_b"
    [] name = "set_receive" -> "receive"
    [] name = "set_bump" -> "bump"

(* --------------------------- state machine ----------------------------- *)
(* bytes  : the caller's buffer                                            *)
(* handle : the reference the last load/load_mut returned, if still live    *)
(* res    : what the last call returned                                    *)
(* op,pop : the last call and the one before it (name and argument)         *)
(* before : the buffer as it was when the last call started                 *)
(* orig   : the buffer as the caller first supplied it                      *)
(* wrote  : per field, the value last assigned to it (<<>> if none)         *)
(* reach  : highest 0-based byte index accessed through a handle (-1: none) *)
(* steps  : number of calls made                                           *)
NoOp == [name |-> "init", arg |-> <<>>]

Init ==
  /\ bytes \in Buffers
  /\ handle = NoHandle
  /\ res = "None"
  /\ op = NoOp
  /\ pop = NoOp
  /\ before = bytes
  /\ orig = bytes
  /\ wrote = [f \in FieldSet |-> <<>>]
  /\ reach = -1
  /\ steps = 0

Called(name, arg) ==
  /\ steps < MaxOps
  /\ steps' = steps + 1
  /\ op' = [name |-> name, arg |-> arg]
  /\ pop' = op
  /\ before' = bytes
  /\ orig' = orig

LoadMut ==
  /\ Called("load_mut", <<>>)
  /\ LET r == load_mut(bytes)
     IN  /\ bytes' = r.mem
         /\ res' = r.res
         /\ handle' = r.handle
  /\ UNCHANGED <<wrote, reach>>

Load ==
  /\ Called("load", <<>>)
  /\ LET r == load(bytes)
     IN  /\ bytes' = r.mem
         /\ res' = r.res
         /\ handle' = r.handle
  /\ UNCHANGED <<wrote, reach>>

(* a setter called on the &mut Escrow that load_mut returned *)
Set(name, arg, mem) ==
  /\ handle.kind = "mut"
  /\ Called(name, arg)
  /\ bytes' = mem
  /\ res' = "Unit"
  /\ wrote' = [wrote EXCEPT ![SetterField(name)] = arg]
  /\ \E hi \in AccessEnds(handle, SetterField(name)) : reach' = Max(reach, hi)
  /\ UNCHANGED handle

SetSeed == \E seed \in Seeds : Set("set_seed", seed, set_seed(bytes, seed))

SetMaker == \E maker \in Makers : Set("set_maker", maker, set_maker(bytes, maker))

SetMintA == \E mint_a \in MintAs : Set("set_mint_a", mint_a, set_mint_a(bytes, mint_a))

SetMintB == \E mint_b \in MintBs : Set("set_mint_b", mint_b, set_mint_b(bytes, mint_b))

SetReceive ==
  \E receive \in Receives : Set("set_receive", receive, set_receive(bytes, receive))

SetBump == \E bump \in Bumps : Set("set_bump", bump, set_bump(bytes, bump))

SetInner ==
  \E v \in InnerArgs :
    /\ handle.kind = "mut"
    /\ Called("set_inner", v)
    /\ bytes' = set_inner(bytes, v)
    /\ res' = "Unit"
    /\ wrote' = [f \in FieldSet |-> v[f]]
    /\ \E hi \in AccessEnds(handle, InnerOrder[Len(InnerOrder)]) :
         reach' = Max(reach, hi)
    /\ UNCHANGED handle

Next ==
  \/ LoadMut
  \/ Load
  \/ SetSeed
  \/ SetMaker
  \/ SetMintA
  \/ SetMintB
  \/ SetReceive
  \/ SetBump
  \/ SetInner

Spec == Init /\ [][Next]_vars

(* ======================= the specified layout ========================== *)
(* The normative offset table of the specification (section 6), written    *)
(* out independently of the struct's computed layout.                       *)
SpecOffset(f) ==
  CASE f = "seed" -> 0
    [] f = "maker" -> 8
    [] f = "mint_a" -> 40
    [] f = "mint_b" -> 72
    [] f = "receive" -> 104
    [] f = "bump" -> 112

SpecWidth(f) ==
  CASE f = "seed" -> 8
    [] f = "maker" -> 32
    [] f = "mint_a" -> 32
    [] f = "mint_b" -> 32
    [] f = "receive" -> 8
    [] f = "bump" -> 1

(* the specified bytes of a 64-bit integer: least significant byte first *)
LittleEndian(x) ==
  <<x[1] % 256, x[1] \div 256, x[2] % 256, x[2] \div 256,
    x[3] % 256, x[3] \div 256, x[4] % 256, x[4] \div 256>>

SpecBytes(f, v) == IF f \in {"seed", "receive"} THEN LittleEndian(v) ELSE v

RawField(mem, f) == LoadBytes(mem, SpecOffset(f), SpecWidth(f))

ScenarioBytes ==
  <<42, 0, 0, 0, 0, 0, 0, 0>> \o Fill(32, 1) \o Fill(32, 2) \o Fill(32, 3)
    \o <<232, 3, 0, 0, 0, 0, 0, 0>> \o <<7>>

Loads == {"load", "load_mut"}

(* the six setters called in layout order, cut after the first k *)
SetterPrefix(mem, v, k) ==
  LET m1 == set_seed(mem, v.seed)
      m2 == set_maker(m1, v.maker)
      m3 == set_mint_a(m2, v.mint_a)
      m4 == set_mint_b(m3, v.mint_b)
      m5 == set_receive(m4, v.receive)
      m6 == set_bump(m5, v.bump)
  IN  CASE k = 0 -> mem
        [] k = 1 -> m1
        [] k = 2 -> m2
        [] k = 3 -> m3
        [] k = 4 -> m4
        [] k = 5 -> m5
        [] k = 6 -> m6

(* ============================== claims ================================= *)

(* C1: load and load_mut return InvalidAccountData (and no reference) for   *)
(* every buffer whose length is not exactly 113, and succeed for every      *)
(* buffer of length 113 whatever it holds.                                  *)
C1_ExactLength ==
  op.name \in Loads =>
    /\ Len(bytes) # 113 => (res = "InvalidAccountData" /\ handle.kind = "none")
    /\ Len(bytes) = 113 =>
         /\ res = "Ok"
         /\ handle.kind = (IF op.name = "load" THEN "ref" ELSE "mut")

C1_Witness ==
  /\ op.name = "load_mut"
  /\ pop.name = "load"
  /\ Len(bytes) = 114
  /\ res = "InvalidAccountData"

(* C2: the record is exactly 113 bytes, the sum of the six widths, with no  *)
(* padding between fields or after bump, LEN is that number, and the record *)
(* a load lays over the buffer spans exactly the 113 validated bytes.       *)
C2_NoPadding ==
  /\ LEN = 113
  /\ \A f \in FieldSet : OffsetOf(f) = SpecOffset(f) /\ FieldSize(f) = SpecWidth(f)
  /\ handle.kind # "none" => (SizeOfEscrow = LEN /\ handle.span = Len(bytes))

(* C3: round trip: set_inner(v) through the handle of load_mut, followed by *)
(* load of the same buffer, shows exactly v, field for field.               *)
C3_RoundTrip ==
  (op.name = "load" /\ res = "Ok" /\ pop.name = "set_inner") => View(bytes) = pop.arg

C3_Witness ==
  /\ op.name = "load"
  /\ res = "Ok"
  /\ pop.name = "set_inner"
  /\ pop.arg = Scenario
  /\ orig = Fill(113, 255)
  /\ View(bytes) = Scenario

(* C4: every setter (and set_inner) leaves its value's bytes at the fixed   *)
(* byte range of its field, 64-bit integers little-endian; set_inner of the *)
(* concrete scenario on a zeroed buffer gives exactly the scenario's bytes. *)
C4_OffsetCorrectness ==
  /\ op.name \in Setters =>
       RawField(bytes, SetterField(op.name)) = SpecBytes(SetterField(op.name), op.arg)
  /\ op.name = "set_inner" =>
       \A f \in FieldSet : RawField(bytes, f) = SpecBytes(f, op.arg[f])
  /\ (op.name = "set_inner" /\ op.arg = Scenario /\ before = Fill(113, 0)) =>
       bytes = ScenarioBytes

C4_Witness ==
  /\ op.name = "set_inner"
  /\ op.arg = Scenario
  /\ before = Fill(113, 0)
  /\ bytes = ScenarioBytes

(* C5: a setter leaves the stored bytes of the other five fields as they    *)
(* were before the call.                                                    *)
C5_Independence ==
  op.name \in Setters =>
    \A g \in FieldSet \ {SetterField(op.name)} : RawField(bytes, g) = RawField(before, g)

C5_Witness ==
  /\ op.name = "set_mint_a"
  /\ pop.name = "set_inner"
  /\ bytes # before

(* C6: set_inner leaves the buffer as the six setters called in layout      *)
(* order leave it, and each intermediate state of set_inner is the state    *)
(* after the same number of those setter calls.                             *)
C6_InnerIsSetterSequence ==
  op.name = "set_inner" =>
    /\ bytes = SetterPrefix(before, op.arg, 6)
    /\ \A k \in 0..6 : set_inner_upto(before, op.arg, k) = SetterPrefix(before, op.arg, k)

C6_Witness ==
  /\ op.name = "set_inner"
  /\ bytes # before
  /\ set_inner_upto(before, op.arg, 3) # before
  /\ set_inner_upto(before, op.arg, 3) # bytes

(* C7: a setter called a second time in a row with the same value leaves    *)
(* the buffer as the first call left it.                                    *)
C7_Idempotent ==
  (op.name \in Setters /\ pop.name = op.name /\ pop.arg = op.arg) => bytes = before

C7_Witness ==
  /\ op.name \in Setters
  /\ pop.name = op.name
  /\ pop.arg = op.arg
  /\ steps = 3
  /\ bytes # orig

(* C8: load and load_mut leave the buffer byte-identical, on success and on *)
(* failure; only a setter or set_inner changes a byte of the buffer.        *)
C8_LoadsDoNotMutate ==
  /\ op.name \in Loads => bytes = before
  /\ bytes # before => op.name \in Setters \cup {"set_inner"}

C8_Witness ==
  /\ op.name = "load"
  /\ pop.name = "load_mut"
  /\ res = "InvalidAccountData"
  /\ Len(bytes) = 112
  /\ bytes = Ramp(112)

(* C9: InvalidAccountData is the only error, returned only by load and      *)
(* load_mut on a buffer of the wrong length; the setters and set_inner      *)
(* return normally and store every value they are given.                    *)
C9_OnlySizeMismatch ==
  /\ res \in {"None", "Ok", "Unit", "InvalidAccountData"}
  /\ res = "InvalidAccountData" => (op.name \in Loads /\ Len(bytes) # 113)
  /\ op.name \in Setters =>
       (res = "Unit" /\ ReadField(bytes, SetterField(op.name)) = op.arg)
  /\ op.name = "set_inner" => (res = "Unit" /\ View(bytes) = op.arg)

C9_Witness ==
  /\ op.name = "set_receive"
  /\ op.arg = <<0, 0, 0, 0>>
  /\ res = "Unit"
  /\ bytes # before

====
